---- MODULE Spec2Model ----
(***************************************************************************)
(* A model of jambiato.py: the document structure parser                   *)
(* (extract_sections_and_formulas), the per-release database builder       *)
(* (extract_formulas_soup, download_releases) and the reconciliation of    *)
(* code tags against the version databases (run).                          *)
(*                                                                         *)
(* Python strings are sequences of tokens: a token is one LaTeX command,   *)
(* one character of a number, or one opaque piece of text.  str.split,     *)
(* str.count, str.find, str() of an integer and int() of a string are      *)
(* computed on these sequences.                                            *)
(***************************************************************************)
EXTENDS Integers, Sequences, FiniteSets, TLC

VARIABLES
    \* extract_sections_and_formulas: its locals and the walk over the tree
    section_div, result, current_section, formula_counter, is_appendix,
    section_counter, walked, stack, pc, err,
    \* process_equation: the node it was called on and its locals
    eq, frame,
    \* extract_formulas_soup: the dict built from the record list
    formulas,
    \* run: the databases, the tags and the collections it computes
    db, latest, tags, outdated, missing, unrecognized, implemented_versions,
    report, rpc, rerr,
    \* download_releases: the release list, the loop position, the files
    releases, rel_i, artifacts, dirs, printed, dpc

parserVars == <<section_div, result, current_section, formula_counter,
                is_appendix, section_counter, walked, stack, pc, err>>
eqVars == <<eq, frame>>
soupVars == <<formulas>>
runVars == <<db, latest, tags, outdated, missing, unrecognized,
             implemented_versions, report, rpc, rerr>>
dlVars == <<releases, rel_i, artifacts, dirs, printed, dpc>>
vars == <<parserVars, eqVars, soupVars, runVars, dlVars>>

----------------------------------------------------------------------------
(* Bounds of the model *)

\* nodes visited by one walk
MaxNodes == 5
\* nodes visited by one walk of the longer documents
MaxLongNodes == 6
\* depth of the tree below the root
MaxDepth == 2
\* fragments (lines) of an align node in the process_equation specification
MaxFrags == 3
\* code tags found in the codebase
MaxTags == 1
\* formulas in the database of the latest release
MaxDbLen == 2
\* formulas in the database of the older release
MaxOldLen == 1
\* releases the API lists
MaxReleases == 3

----------------------------------------------------------------------------
(* Python values *)

\* Python's None, for a label, a current section or a missing file
None == <<"<None>">>

Digits == <<"0", "1", "2", "3", "4", "5", "6", "7", "8", "9">>

\* string.ascii_uppercase
ascii_uppercase ==
    <<"A", "B", "C", "D", "E", "F", "G", "H", "I", "J", "K", "L", "M",
      "N", "O", "P", "Q", "R", "S", "T", "U", "V", "W", "X", "Y", "Z">>

\* str(n) for n >= 0: the decimal digits of n
RECURSIVE ToStr(_)
ToStr(n) ==
    IF n < 10 THEN <<Digits[n + 1]>>
    ELSE ToStr(n \div 10) \o <<Digits[(n % 10) + 1]>>

\* s.count(tok)
Count(s, tok) == Cardinality({k \in 1..Len(s) : s[k] = tok})

\* s.find(tok) != -1
Contains(s, tok) == \E k \in 1..Len(s) : s[k] = tok

\* s.find(tok), 1-based; 0 when absent
Find(s, tok) ==
    IF Contains(s, tok)
    THEN CHOOSE k \in 1..Len(s) : s[k] = tok /\ \A j \in 1..(k - 1) : s[j] # tok
    ELSE 0

\* s.split(sep): the pieces of s between the occurrences of sep
RECURSIVE Split(_, _)
Split(s, sep) ==
    IF ~Contains(s, sep) THEN <<s>>
    ELSE LET k == Find(s, sep)
         IN  <<SubSeq(s, 1, k - 1)>> \o Split(SubSeq(s, k + 1, Len(s)), sep)

\* truthiness of a string-or-None
Truthy(s) == s # None /\ s # <<>>

----------------------------------------------------------------------------
(* Tokens of the raw LaTeX text *)

LineBreak == "\\\\"
NoNumber == "\\nonumber"
LabelCmd == "\\label{"
CloseBrace == "}"

\* x.split("\\label{")[1].split("}")[0], for x containing "\\label{"
LabelAfterCmd(x) == Split(Split(x, LabelCmd)[2], CloseBrace)[1]

\* the comparisons of the splitting loop without the one of align*
UnbalancedNoAlignStar(x) ==
    \/ Count(x, "\\begin{cases}") # Count(x, "\\end{cases}")
    \/ Count(x, "\\begin{rcases}") # Count(x, "\\end{rcases}")
    \/ Count(x, "\\begin{aligned}") # Count(x, "\\end{aligned}")

\* the four begin/end comparisons of the splitting loop (lines 62-65)
Unbalanced(x) ==
    \/ Count(x, "\\begin{cases}") # Count(x, "\\end{cases}")
    \/ Count(x, "\\begin{rcases}") # Count(x, "\\end{rcases}")
    \/ Count(x, "\\begin{aligned}") # Count(x, "\\end{aligned}")
    \/ Count(x, "\\begin{align*}") # Count(x, "\\end{align*}")

----------------------------------------------------------------------------
(* extract_sections_and_formulas: get_section_number, process_equation *)

\* get_section_number; ascii_uppercase[counter - 1] raises IndexError past "Z"
SectionNumberRaises(app, counter) == app /\ counter > Len(ascii_uppercase)

\* get_section_number without its appendix branch
get_section_numberDecimal(app, counter) == ToStr(counter)

get_section_number(app, counter) ==
    IF app THEN <<ascii_uppercase[counter]>> ELSE ToStr(counter)

\* f"{section_num}.{formula_counter}" or f"{formula_counter}"
FormulaIdx(sdiv, section_num, fc) ==
    IF sdiv THEN section_num \o <<".">> \o ToStr(fc) ELSE ToStr(fc)

\* ["formula", label, formula_idx, tex]
FormulaRec(label, idx, tex) ==
    [typ |-> "formula", label |-> label, idx |-> idx, tex |-> tex]

\* ["section", None, section_num, section_title]
SectionRec(num, title) ==
    [typ |-> "section", label |-> None, idx |-> num, tex |-> title]

\* a frame of process_equation that is not running
NoFrame == [st |-> "idle", data |-> <<>>, i |-> 0, x |-> <<>>, eqs |-> <<>>,
            fc |-> 0]

\* the branch of process_equation taken: the splitting loop or the single record
IsSplit(e) == e.name = "align" /\ Len(Split(e.raw, LineBreak)) > 1

\* process_equation up to the while loop (lines 49-58), or the whole
\* single-record path (lines 93-114).  i is Python's 0-based position.
EqEntry(e, section_num, fc, sdiv) ==
    IF IsSplit(e)
    THEN LET data == Split(e.raw, LineBreak)
             skip == Contains(data[1], NoNumber)
         IN  [st |-> "loop", data |-> data,
              i |-> IF skip THEN 1 ELSE 0,
              x |-> IF skip THEN data[2] ELSE data[1],
              eqs |-> <<>>, fc |-> fc]
    ELSE LET label == IF e.labels # <<>> THEN e.labels[1] ELSE None
         IN  IF label = None /\ Contains(e.raw, LabelCmd)
             \* line 104 reads x, which is unbound on this path
             THEN [NoFrame EXCEPT !.st = "UnboundLocalError", !.fc = fc]
             ELSE [st |-> "return", data |-> <<>>, i |-> 0, x |-> <<>>,
                   eqs |-> <<FormulaRec(label, FormulaIdx(sdiv, section_num, fc),
                                        e.raw)>>,
                   fc |-> fc + 1]

\* one evaluation of the while condition and, when it holds, of the loop body
\* (lines 60-91)
LoopStep(f, section_num, sdiv) ==
    IF ~(f.i < Len(f.data)) THEN [f EXCEPT !.st = "return"]
    ELSE IF Unbalanced(f.x)
    THEN IF f.i + 1 < Len(f.data)
         THEN [f EXCEPT !.i = f.i + 1, !.x = f.x \o f.data[f.i + 2]]
         ELSE [f EXCEPT !.i = f.i + 1, !.st = "IndexError"]
    ELSE IF f.i + 1 < Len(f.data) /\ Contains(f.data[f.i + 2], NoNumber)
    THEN [f EXCEPT !.i = f.i + 1, !.x = f.x \o f.data[f.i + 2]]
    ELSE LET label == IF Contains(f.x, LabelCmd) THEN LabelAfterCmd(f.x)
                      ELSE None
             rec == FormulaRec(label, FormulaIdx(sdiv, section_num, f.fc), f.x)
         IN  [f EXCEPT !.eqs = Append(f.eqs, rec),
                       !.fc = f.fc + 1,
                       !.i = f.i + 1,
                       !.x = IF f.i + 1 < Len(f.data) THEN f.data[f.i + 2]
                             ELSE f.x]

\* the while loop run to its end
RECURSIVE RunLoop(_, _, _)
RunLoop(f, section_num, sdiv) ==
    IF f.st # "loop" THEN f
    ELSE RunLoop(LoopStep(f, section_num, sdiv), section_num, sdiv)

\* process_equation(eq, section_num) as a whole
process_equation(e, section_num, fc, sdiv) ==
    RunLoop(EqEntry(e, section_num, fc, sdiv), section_num, sdiv)

----------------------------------------------------------------------------
(* The document tree, as the nodes the depth-first walk meets *)

EqNames == {"equation", "align", "gather"}

BeginTok(name) ==
    CASE name = "equation" -> "\\begin{equation}"
      [] name = "align" -> "\\begin{align}"
      [] name = "gather" -> "\\begin{gather}"

EndTok(name) ==
    CASE name = "equation" -> "\\end{equation}"
      [] name = "align" -> "\\end{align}"
      [] name = "gather" -> "\\end{gather}"

\* str(eq) of an environment node: its begin, its body, its end
Raw(name, body) == <<BeginTok(name)>> \o body \o <<EndTok(name)>>

\* an equation-like node: its name, str(eq) and the strings of find_all("label")
EqNode(name, body, labels) ==
    [name |-> name, raw |-> Raw(name, body), labels |-> labels]

NoEq == [name |-> "none", raw |-> <<>>, labels |-> <<>>]

\* the equation-like nodes of the walked documents
WalkEqs ==
    {EqNode(n, <<"a">>, <<>>) : n \in EqNames}
        \cup {EqNode("align", <<"a", LineBreak, "b">>, <<>>)}

\* node.args[0].string of the label nodes of the walked documents
LabelArgs == {<<"sec:", "intro">>, <<"eq:", "foo">>}

SectionTitle == <<"Title">>

----------------------------------------------------------------------------
(* extract_sections_and_formulas: process_node and the walk (lines 116-165) *)

InitParser ==
    /\ section_div \in BOOLEAN
    /\ result = <<>>
    /\ current_section = None
    /\ formula_counter = 1
    /\ is_appendix = FALSE
    /\ section_counter = 1
    /\ walked = <<>>
    /\ stack = <<>>
    /\ pc = "walk"
    /\ err = "none"

\* The next node of the walk sits at depth d: a child of the node just
\* processed, or a later sibling of it or of one of its ancestors.  The
\* children of an appendix node are never walked (line 123 returns).
Meet(name, d, n) ==
    /\ pc = "walk"
    /\ Len(walked) < n
    /\ d \in 1..MaxDepth
    /\ d <= Len(stack) + 1
    /\ (stack # <<>> /\ stack[Len(stack)] = "appendix") => d <= Len(stack)
    /\ walked' = Append(walked, name)
    /\ stack' = Append(SubSeq(stack, 1, d - 1), name)

Raise(e) == pc' = "raised" /\ err' = e

\* lines 120-123
ProcessAppendix(n) ==
    \E d \in 1..MaxDepth :
        /\ Meet("appendix", d, n)
        /\ is_appendix' = TRUE
        /\ section_counter' = 1
        /\ UNCHANGED <<section_div, result, current_section, formula_counter,
                       pc, err>>
        /\ UNCHANGED <<eqVars, soupVars, runVars, dlVars>>

\* lines 126-132; result[-1] raises IndexError on the empty list
ProcessLabel(n) ==
    \E d \in 1..MaxDepth, arg \in LabelArgs :
        /\ Meet("label", d, n)
        /\ IF result = <<>>
           THEN Raise("IndexError") /\ UNCHANGED result
           ELSE /\ UNCHANGED <<pc, err>>
                /\ LET last == result[Len(result)]
                   IN  IF /\ last.typ = "section"
                          /\ last.label = None
                          /\ Contains(arg, "sec:")
                       THEN result' = [result EXCEPT ![Len(result)].label = arg]
                       ELSE UNCHANGED result
        /\ UNCHANGED <<section_div, current_section, formula_counter,
                       is_appendix, section_counter>>
        /\ UNCHANGED <<eqVars, soupVars, runVars, dlVars>>

\* lines 135-145
ProcessSection(n) ==
    \E d \in 1..MaxDepth :
        /\ Meet("section", d, n)
        /\ IF SectionNumberRaises(is_appendix, section_counter)
           THEN /\ Raise("IndexError")
                /\ UNCHANGED <<result, current_section, section_counter,
                               formula_counter>>
           ELSE LET section_num == get_section_number(is_appendix, section_counter)
                IN  /\ current_section' = section_num
                    /\ result' = Append(result, SectionRec(section_num, SectionTitle))
                    /\ section_counter' = section_counter + 1
                    /\ formula_counter' = IF section_div THEN 1 ELSE formula_counter
                    /\ UNCHANGED <<pc, err>>
        /\ UNCHANGED <<section_div, is_appendix>>
        /\ UNCHANGED <<eqVars, soupVars, runVars, dlVars>>

\* the test of line 149, left out
InSectionUnchecked(cs) == TRUE

\* the test of line 149
InSection(cs) == Truthy(cs)

\* lines 148-152, with the call of process_equation
ProcessEquation(n) ==
    \E d \in 1..MaxDepth, e \in WalkEqs :
        /\ Meet(e.name, d, n)
        /\ IF InSection(current_section)
           THEN LET f == process_equation(e, current_section, formula_counter,
                                          section_div)
                IN  IF f.st = "return"
                    THEN /\ result' = result \o f.eqs
                         /\ formula_counter' = f.fc
                         /\ UNCHANGED <<pc, err>>
                    ELSE /\ Raise(f.st)
                         /\ formula_counter' = f.fc
                         /\ UNCHANGED result
           ELSE /\ Raise("Formula outside section")
                /\ UNCHANGED <<result, formula_counter>>
        /\ UNCHANGED <<section_div, current_section, is_appendix, section_counter>>
        /\ UNCHANGED <<eqVars, soupVars, runVars, dlVars>>

\* a node of any other name: only its children are walked (lines 155-158)
ProcessOther(n) ==
    \E d \in 1..MaxDepth :
        /\ Meet("document", d, n)
        /\ UNCHANGED <<section_div, result, current_section, formula_counter,
                       is_appendix, section_counter, pc, err>>
        /\ UNCHANGED <<eqVars, soupVars, runVars, dlVars>>

\* line 165: the walk is over
ReturnResult ==
    /\ pc = "walk"
    /\ pc' = "returned"
    /\ UNCHANGED <<section_div, result, current_section, formula_counter,
                   is_appendix, section_counter, walked, stack, err>>
    /\ UNCHANGED <<eqVars, soupVars, runVars, dlVars>>

\* the formula records of a record list
FormulaRecs(res) == SelectSeq(res, LAMBDA r : r.typ = "formula")

\* the dict of lines 199-210: each index maps to the last record written for it
FormulasDict(res) ==
    LET fs == FormulaRecs(res)
    IN  [idx \in {fs[k].idx : k \in 1..Len(fs)} |->
            LET k == CHOOSE k \in 1..Len(fs) :
                        /\ fs[k].idx = idx
                        /\ \A j \in (k + 1)..Len(fs) : fs[j].idx # idx
            IN  [label |-> fs[k].label, index |-> fs[k].idx, tex |-> fs[k].tex]]

\* extract_formulas_soup, lines 198-214
ExtractFormulasSoup ==
    /\ pc = "returned"
    /\ formulas' = FormulasDict(result)
    /\ pc' = "built"
    /\ UNCHANGED <<section_div, result, current_section, formula_counter,
                   is_appendix, section_counter, walked, stack, err>>
    /\ UNCHANGED <<eqVars, runVars, dlVars>>

----------------------------------------------------------------------------
(* Idle values of the parts a specification leaves alone *)

IdleEq == eq = NoEq /\ frame = NoFrame
IdleSoup == formulas = <<>>
IdleRun ==
    /\ db = <<>> /\ latest = None /\ tags = <<>>
    /\ outdated = <<>> /\ missing = <<>> /\ unrecognized = <<>>
    /\ implemented_versions = <<>> /\ report = <<>>
    /\ rpc = "idle" /\ rerr = "none"
IdleDl ==
    /\ releases = <<>> /\ rel_i = 0 /\ artifacts = <<>> /\ dirs = {}
    /\ printed = <<>> /\ dpc = "idle"

----------------------------------------------------------------------------
(* The parse of one release *)

Init == InitParser /\ IdleEq /\ IdleSoup /\ IdleRun /\ IdleDl

Next ==
    \/ ProcessAppendix(MaxNodes)
    \/ ProcessLabel(MaxNodes)
    \/ ProcessSection(MaxNodes)
    \/ ProcessEquation(MaxNodes)
    \/ ProcessOther(MaxNodes)
    \/ ReturnResult
    \/ ExtractFormulasSoup

Spec == Init /\ [][Next]_vars

\* the same parse, of documents of up to MaxLongNodes nodes
NextLong ==
    \/ ProcessAppendix(MaxLongNodes)
    \/ ProcessLabel(MaxLongNodes)
    \/ ProcessSection(MaxLongNodes)
    \/ ProcessEquation(MaxLongNodes)
    \/ ProcessOther(MaxLongNodes)
    \/ ReturnResult
    \/ ExtractFormulasSoup

SpecLong == Init /\ [][NextLong]_vars

----------------------------------------------------------------------------
(* process_equation on its own, step by step, after one section was entered *)

\* the lines an equation-like node is made of in this specification
Fragments ==
    { <<"a">>, <<"a", NoNumber>>, <<"a", LabelCmd, "foo", CloseBrace>>,
      <<"\\begin{cases}">>, <<"\\end{cases}">>,
      <<"\\begin{rcases}">>, <<"\\end{rcases}">>,
      <<"\\begin{aligned}">>, <<"\\end{aligned}">>,
      <<"\\begin{align*}">>, <<"\\end{align*}">> }

\* the lines joined by hard line breaks
RECURSIVE Join(_)
Join(lines) ==
    IF Len(lines) = 1 THEN lines[1]
    ELSE lines[1] \o <<LineBreak>> \o Join(Tail(lines))

Bodies == UNION {{Join(ls) : ls \in [1..n -> Fragments]} : n \in 1..MaxFrags}

\* the strings of find_all("label"): none, or one structured label
LabelLists == {<<>>, << <<"foo">> >>}

EqInputs == {EqNode(n, b, ls) : n \in EqNames, b \in Bodies, ls \in LabelLists}

\* the walk has entered its first section and met nothing else
InitEq ==
    /\ section_div \in BOOLEAN
    /\ result = <<SectionRec(<<"1">>, SectionTitle)>>
    /\ current_section = <<"1">>
    /\ formula_counter = 1
    /\ is_appendix = FALSE
    /\ section_counter = 2
    /\ walked = <<"section">>
    /\ stack = <<"section">>
    /\ pc = "walk"
    /\ err = "none"
    /\ IdleEq /\ IdleSoup /\ IdleRun /\ IdleDl

\* line 150: process_equation is called on the next node
CallProcessEquation ==
    /\ pc = "walk"
    /\ frame.st = "idle"
    /\ InSection(current_section)
    /\ \E e \in EqInputs :
        /\ eq' = e
        /\ frame' = EqEntry(e, current_section, formula_counter, section_div)
        /\ walked' = Append(walked, e.name)
        /\ stack' = <<e.name>>
        /\ pc' = "process_equation"
        /\ UNCHANGED <<section_div, result, current_section, formula_counter,
                       is_appendix, section_counter, err>>
        /\ UNCHANGED <<soupVars, runVars, dlVars>>

\* lines 60-91: one turn of the while loop
LoopIteration ==
    /\ pc = "process_equation"
    /\ frame.st = "loop"
    /\ frame' = LoopStep(frame, current_section, section_div)
    /\ UNCHANGED <<eq, parserVars, soupVars, runVars, dlVars>>

\* lines 91 and 114, and result.extend of line 150
ReturnEqs ==
    /\ pc = "process_equation"
    /\ frame.st = "return"
    /\ result' = result \o frame.eqs
    /\ formula_counter' = frame.fc
    /\ frame' = [frame EXCEPT !.st = "done"]
    /\ pc' = "walk"
    /\ UNCHANGED <<eq, section_div, current_section, is_appendix,
                   section_counter, walked, stack, err>>
    /\ UNCHANGED <<soupVars, runVars, dlVars>>

\* an exception of process_equation leaves extract_sections_and_formulas
RaiseFromEquation ==
    /\ pc = "process_equation"
    /\ frame.st \in {"IndexError", "UnboundLocalError"}
    /\ Raise(frame.st)
    /\ formula_counter' = frame.fc
    /\ frame' = [frame EXCEPT !.st = "raised"]
    /\ UNCHANGED <<eq, section_div, result, current_section, is_appendix,
                   section_counter, walked, stack>>
    /\ UNCHANGED <<soupVars, runVars, dlVars>>

NextEq ==
    \/ CallProcessEquation
    \/ LoopIteration
    \/ ReturnEqs
    \/ RaiseFromEquation

SpecEq == InitEq /\ [][NextEq]_vars

----------------------------------------------------------------------------
(* run: the reconciliation of the code tags (lines 341-420) *)

\* the versions: the latest release and an older one
LatestVersion == <<"0", ".", "6", ".", "0">>
OldVersion == <<"0", ".", "5", ".", "0">>

\* formula indices: one of a release numbered globally, two of a release
\* numbered by section
Indices == { <<"1">>, <<"3", ".", "1">>, <<"3", ".", "2">> }

\* a record of a database file: {"label", "index", "tex"}
DbFormulas ==
    { [label |-> lt[1], index |-> ix, tex |-> lt[2]] :
        ix \in Indices,
        lt \in { <<None, <<"T1">> >>, << <<"foo">>, <<"T1">> >>,
                 << <<"foo">>, <<"T2">> >> } }

\* the lists a database file can hold: extract_formulas_soup writes the
\* values of a dict keyed by index, so no index occurs twice
DbLists(n) ==
    UNION { { l \in [1..m -> DbFormulas] :
                \A j, k \in 1..m : j # k => l[j].index # l[k].index } :
            m \in 0..n }

\* the tags find_code_tags returns: (file, line, version, index)
Tag(line, version, index) ==
    [file |-> "f", line |-> line, version |-> version, index |-> index]

TagLists ==
    UNION { { [k \in 1..m |-> Tag(k, vi[k][1], vi[k][2])] :
                vi \in [1..m -> {OldVersion, LatestVersion} \X Indices] } :
            m \in 0..MaxTags }

InitRun ==
    /\ latest = LatestVersion
    /\ \E l \in DbLists(MaxDbLen) :
        \/ db = [v \in {LatestVersion} |-> l]
        \/ \E o \in DbLists(MaxOldLen) :
              db = [v \in {OldVersion, LatestVersion} |->
                       IF v = LatestVersion THEN l ELSE o]
    /\ tags \in TagLists
    /\ outdated = <<>> /\ missing = <<>> /\ unrecognized = <<>>
    /\ implemented_versions = <<>> /\ report = <<>>
    /\ rpc = "start" /\ rerr = "none"
    /\ section_div = FALSE /\ result = <<>> /\ current_section = None
    /\ formula_counter = 1 /\ is_appendix = FALSE /\ section_counter = 1
    /\ walked = <<>> /\ stack = <<>> /\ pc = "idle" /\ err = "none"
    /\ IdleEq /\ IdleSoup /\ IdleDl

\* implemented_versions[version] += 1, a new key going last (lines 353-355)
CountVersion(iv, version) ==
    IF \E k \in 1..Len(iv) : iv[k].version = version
    THEN [k \in 1..Len(iv) |->
            IF iv[k].version = version
            THEN [iv[k] EXCEPT !.count = iv[k].count + 1] ELSE iv[k]]
    ELSE Append(iv, [version |-> version, count |-> 1])

\* the loop over the tags (lines 347-359) from tag k on; db[version] raises
\* KeyError for a version without a database
RECURSIVE ClassifyFrom(_, _)
ClassifyFrom(k, st) ==
    IF k > Len(tags) THEN st
    ELSE LET t == tags[k]
             out == IF t.version # latest THEN Append(st.outdated, t)
                    ELSE st.outdated
             iv == CountVersion(st.iv, t.version)
         IN  IF t.version \notin DOMAIN db
             THEN [st EXCEPT !.outdated = out, !.iv = iv, !.err = "KeyError"]
             ELSE LET matches == SelectSeq(db[t.version],
                                           LAMBDA x : x.index = t.index)
                  IN  ClassifyFrom(k + 1,
                        [st EXCEPT !.outdated = out, !.iv = iv,
                                   !.unrecognized =
                                       IF Len(matches) = 0
                                       THEN Append(st.unrecognized, t)
                                       ELSE st.unrecognized])

\* lines 341-361; max() of the empty dict raises ValueError
ClassifyTags ==
    /\ rpc = "start"
    /\ LET st == ClassifyFrom(1, [outdated |-> <<>>, unrecognized |-> <<>>,
                                  iv |-> <<>>, err |-> "none"])
       IN  /\ outdated' = st.outdated
           /\ unrecognized' = st.unrecognized
           /\ implemented_versions' = st.iv
           /\ IF st.err # "none"
              THEN rpc' = "raised" /\ rerr' = st.err
              ELSE IF st.iv = <<>>
              THEN rpc' = "raised" /\ rerr' = "ValueError: max() arg is an empty sequence"
              ELSE rpc' = "classified" /\ rerr' = rerr
    /\ UNCHANGED <<db, latest, tags, missing, report>>
    /\ UNCHANGED <<parserVars, eqVars, soupVars, dlVars>>

\* the comparison of line 365 restricted to the tags of the latest version
TagReferencesLatestOnly(t, x) == t.index = x.index /\ x.version = latest

\* the comparison of line 365: t a formula of db[latest], x a tag
TagReferences(t, x) == t.index = x.index

\* the loop of lines 364-367 from formula k of db[latest] on
RECURSIVE MissingFrom(_, _)
MissingFrom(k, acc) ==
    IF k > Len(db[latest]) THEN acc
    ELSE LET t == db[latest][k]
             matches == SelectSeq(tags, LAMBDA x : TagReferences(t, x))
         IN  MissingFrom(k + 1, IF Len(matches) = 0 THEN Append(acc, t) ELSE acc)

\* lines 364-371
FindMissing ==
    /\ rpc = "classified"
    /\ IF latest \notin DOMAIN db
       THEN rpc' = "raised" /\ rerr' = "KeyError" /\ UNCHANGED missing
       ELSE /\ missing' = MissingFrom(1, <<>>)
            /\ rerr' = rerr
            /\ rpc' = IF Len(missing') = 0 /\ Len(outdated) = 0
                         /\ Len(unrecognized) = 0
                      THEN "up_to_date" ELSE "reporting"
    /\ UNCHANGED <<db, latest, tags, outdated, unrecognized,
                   implemented_versions, report>>
    /\ UNCHANGED <<parserVars, eqVars, soupVars, dlVars>>

\* ord() of the characters of an index
CharOrder == <<".", "0", "1", "2", "3", "4", "5", "6", "7", "8", "9">>
Ord(c) == CHOOSE k \in 1..Len(CharOrder) : CharOrder[k] = c

\* a < b for two strings
RECURSIVE StrLess(_, _)
StrLess(a, b) ==
    IF b = <<>> THEN FALSE
    ELSE IF a = <<>> THEN TRUE
    ELSE IF Head(a) # Head(b) THEN Ord(Head(a)) < Ord(Head(b))
    ELSE StrLess(Tail(a), Tail(b))

\* int(s) raises ValueError unless s is a run of digits
IsIntLiteral(s) ==
    /\ s # <<>>
    /\ \A k \in 1..Len(s) : \E d \in 1..Len(Digits) : Digits[d] = s[k]

DigitValue(c) == (CHOOSE d \in 1..Len(Digits) : Digits[d] = c) - 1

RECURSIVE IntOf(_)
IntOf(s) ==
    IF Len(s) = 1 THEN DigitValue(s[1])
    ELSE 10 * IntOf(SubSeq(s, 1, Len(s) - 1)) + DigitValue(s[Len(s)])

\* the order of two tags under the sort key: x[3], or int(x[3])
KeyLess(key, a, b) ==
    IF key = "str" THEN StrLess(a.index, b.index)
    ELSE IntOf(a.index) < IntOf(b.index)

\* list.sort / sorted by the key: a stable insertion
RECURSIVE SortedBy(_, _)
SortedBy(seq, key) ==
    IF seq = <<>> THEN <<>>
    ELSE LET x == seq[Len(seq)]
             rest == SortedBy(SubSeq(seq, 1, Len(seq) - 1), key)
             \* x goes after every element that is not greater than it
             after == {k \in 1..Len(rest) : ~KeyLess(key, x, rest[k])}
             pos == IF after = {} THEN 0
                    ELSE CHOOSE k \in after : \A j \in after : j <= k
         IN  SubSeq(rest, 1, pos) \o <<x>> \o SubSeq(rest, pos + 1, Len(rest))

\* lines 392-420: the line printed for one outdated tag, as the hints it holds
ReportLine(t) ==
    LET matches == SelectSeq(db[t.version], LAMBDA x : x.index = t.index)
        has_label == Len(matches) > 0 /\ matches[1].label # None
        by_label == IF has_label
                    THEN SelectSeq(db[latest],
                                   LAMBDA x : x.label = matches[1].label)
                    ELSE <<>>
        label_match == Len(by_label) > 0
        by_tex == IF ~label_match /\ Len(matches) > 0
                  THEN SelectSeq(db[latest], LAMBDA x : x.tex = matches[1].tex)
                  ELSE <<>>
    IN  [tag |-> t,
         becomes |-> IF label_match /\ t.index # by_label[1].index
                     THEN by_label[1].index ELSE None,
         content_not_equal |-> label_match /\ by_label[1].tex # matches[1].tex,
         may_become |-> IF Len(by_tex) > 0 /\ t.index # by_tex[1].index
                        THEN by_tex[1].index ELSE None]

\* lines 377-420.  perc(len(missing), len(db[latest])) divides by zero for an
\* empty latest database; int(x[3]) raises ValueError for an index that is
\* no integer.  The percentages and the histogram are printed only.
PrintReport ==
    /\ rpc = "reporting"
    /\ unrecognized' = SortedBy(unrecognized, "str")
    /\ IF Len(db[latest]) = 0
       THEN /\ outdated' = SortedBy(outdated, "str")
            /\ rpc' = "raised" /\ rerr' = "ZeroDivisionError"
            /\ UNCHANGED report
       ELSE IF \E k \in 1..Len(outdated) : ~IsIntLiteral(outdated[k].index)
       THEN /\ outdated' = SortedBy(outdated, "str")
            /\ rpc' = "raised"
            /\ rerr' = "ValueError: invalid literal for int()"
            /\ UNCHANGED report
       ELSE /\ outdated' = SortedBy(SortedBy(outdated, "str"), "int")
            /\ report' = [k \in 1..Len(outdated) |-> ReportLine(outdated'[k])]
            /\ rpc' = "done" /\ rerr' = rerr
    /\ UNCHANGED <<db, latest, tags, missing, implemented_versions>>
    /\ UNCHANGED <<parserVars, eqVars, soupVars, dlVars>>

NextRun ==
    \/ ClassifyTags
    \/ FindMissing
    \/ PrintReport

SpecRun == InitRun /\ [][NextRun]_vars

----------------------------------------------------------------------------
(* download_releases (lines 228-276) *)

\* f"v{MIN_VER}"
MinVerTag == <<"v", "0", ".", "4", ".", "0">>

\* the tag names of the releases
ReleaseTags ==
    { <<"v", "0", ".", "6", ".", "0">>, <<"v", "0", ".", "5", ".", "0">>,
      MinVerTag, <<"v", "0", ".", "3", ".", "0">> }

\* the texts a database file can hold
DbTexts == {<<"formulas A">>, <<"formulas B">>}

\* the artifact of a release: the file release_dir + ".json", written from
\* the formulas extracted with the release's numbering
Artifact(numbering, text) == [section_div |-> numbering, json |-> text]

\* the file does not exist
NoFile == Artifact(FALSE, None)

\* the artifacts an earlier run may have left
OldArtifacts ==
    {Artifact(TRUE, <<"formulas A">>), Artifact(FALSE, <<"formulas B">>)}

\* the release lists the API returns: distinct tag names
ReleaseLists ==
    UNION { { l \in [1..m -> ReleaseTags] :
                \A j, k \in 1..m : j # k => l[j] # l[k] } :
            m \in 0..MaxReleases }

\* Before the run any artifact may exist from an earlier run, and any
\* release directory may be left over from a run that failed.
InitDl ==
    /\ releases \in ReleaseLists
    /\ rel_i = 1
    /\ artifacts \in [ReleaseTags -> {NoFile} \cup OldArtifacts]
    /\ \A t \in ReleaseTags :
          artifacts[t] # NoFile => \E k \in 1..Len(releases) : releases[k] = t
    /\ dirs \in SUBSET {releases[k] : k \in 1..Len(releases)}
    /\ printed = <<>>
    /\ dpc = "loop"
    /\ section_div = FALSE /\ result = <<>> /\ current_section = None
    /\ formula_counter = 1 /\ is_appendix = FALSE /\ section_counter = 1
    /\ walked = <<>> /\ stack = <<>> /\ pc = "idle" /\ err = "none"
    /\ IdleEq /\ IdleSoup /\ IdleRun

\* the release of the current turn of the loop
AtRelease == dpc = "loop" /\ rel_i <= Len(releases)
Release == releases[rel_i]

\* os.path.exists(release_dir + ".json"), never found
ArtifactNeverExists(tag) == FALSE

\* os.path.exists(release_dir + ".json") (line 239)
ArtifactExists(tag) == artifacts[tag] # NoFile

\* int(release["tag_name"][3]) > 4 (line 267)
SectionDivOf(tag) == DigitValue(tag[4]) > 4

\* lines 234-235: the loop stops at the minimum version
BreakAtMinVer ==
    /\ AtRelease
    /\ Release = MinVerTag
    /\ dpc' = "after_loop"
    /\ UNCHANGED <<releases, rel_i, artifacts, dirs, printed>>
    /\ UNCHANGED <<parserVars, eqVars, soupVars, runVars>>

\* lines 239-241
SkipRelease ==
    /\ AtRelease
    /\ Release # MinVerTag
    /\ ArtifactExists(Release)
    /\ printed' = Append(printed, <<"already present, skipping", Release>>)
    /\ rel_i' = rel_i + 1
    /\ UNCHANGED <<releases, artifacts, dirs, dpc>>
    /\ UNCHANGED <<parserVars, eqVars, soupVars, runVars>>

\* lines 243-274, every step succeeding: the directory is made, the archive
\* fetched and unpacked, the formulas extracted and written, the directory
\* removed
BuildRelease ==
    /\ AtRelease
    /\ Release # MinVerTag
    /\ ~ArtifactExists(Release)
    /\ \E text \in DbTexts :
          artifacts' = [artifacts EXCEPT
                           ![Release] = Artifact(SectionDivOf(Release), text)]
    /\ dirs' = dirs \ {Release}
    /\ printed' = printed \o << <<"Downloading release", Release>>,
                                <<"Building", Release>>,
                                <<"Preparing db", Release>> >>
    /\ rel_i' = rel_i + 1
    /\ UNCHANGED <<releases, dpc>>
    /\ UNCHANGED <<parserVars, eqVars, soupVars, runVars>>

\* lines 243-272, a step raising: the download or the unpacking (lines
\* 250-251), the parse (line 266) or the write (lines 270-271), which leaves
\* a file that is not a whole database.  Nothing catches the exception.
FailRelease ==
    /\ AtRelease
    /\ Release # MinVerTag
    /\ ~ArtifactExists(Release)
    /\ dirs' = dirs \cup {Release}
    /\ \E step \in {"download", "parse", "write"} :
          /\ printed' =
                IF step = "download"
                THEN Append(printed, <<"Downloading release", Release>>)
                ELSE printed \o << <<"Downloading release", Release>>,
                                   <<"Building", Release>>,
                                   <<"Preparing db", Release>> >>
          /\ artifacts' =
                IF step = "write"
                THEN [artifacts EXCEPT
                         ![Release] = Artifact(SectionDivOf(Release), <<>>)]
                ELSE artifacts
    /\ dpc' = "raised"
    /\ UNCHANGED <<releases, rel_i>>
    /\ UNCHANGED <<parserVars, eqVars, soupVars, runVars>>

\* line 276, after the loop ended or was left; releases[0] raises IndexError
\* on an empty list
ReturnLatest ==
    /\ \/ dpc = "after_loop"
       \/ dpc = "loop" /\ rel_i > Len(releases)
    /\ IF releases = <<>>
       THEN dpc' = "raised" /\ UNCHANGED latest
       ELSE dpc' = "returned" /\ latest' = Tail(releases[1])
    /\ UNCHANGED <<releases, rel_i, artifacts, dirs, printed>>
    /\ UNCHANGED <<db, tags, outdated, missing, unrecognized,
                   implemented_versions, report, rpc, rerr>>
    /\ UNCHANGED <<parserVars, eqVars, soupVars>>

NextDl ==
    \/ BreakAtMinVer
    \/ SkipRelease
    \/ BuildRelease
    \/ FailRelease
    \/ ReturnLatest

SpecDl == InitDl /\ [][NextDl]_vars

----------------------------------------------------------------------------
(* Properties of the parse *)

\* the formula records of result, and the numbers of its section records
ResultFormulas == FormulaRecs(result)
SectionNumbers ==
    LET ss == SelectSeq(result, LAMBDA r : r.typ = "section")
    IN  [k \in 1..Len(ss) |-> ss[k].idx]

\* C1: the record list never holds two formula records with the same index.
C1_UniqueIndex ==
    \A j, k \in 1..Len(ResultFormulas) :
        j # k => ResultFormulas[j].idx # ResultFormulas[k].idx

\* an equation-like node was met before any section node
EqBeforeSection ==
    \E k \in 1..Len(walked) :
        /\ walked[k] \in EqNames
        /\ \A j \in 1..(k - 1) : walked[j] # "section"

\* C7: the walk raises "Formula outside section", and returns no record
\* list, exactly when it has met an equation, align or gather node before
\* any section node; after a section was entered the error is never raised.
C7_FormulaOutsideSection ==
    /\ EqBeforeSection <=> err = "Formula outside section"
    /\ err = "Formula outside section" => pc = "raised"

C7_Witness ==
    /\ walked = <<"appendix", "document", "align">>
    /\ pc = "raised"
    /\ err = "Formula outside section"

\* the number the k-th node of the walk, a section, is expected to get: the
\* count of the sections since the last appendix marker, as a letter after
\* an appendix marker and in decimal before
ExpectedNumber(k) ==
    LET apps == {j \in 1..(k - 1) : walked[j] = "appendix"}
        from == IF apps = {} THEN 0
                ELSE CHOOSE j \in apps : \A a \in apps : a <= j
        n == Cardinality({j \in (from + 1)..k : walked[j] = "section"})
    IN  IF apps = {} THEN ToStr(n) ELSE <<ascii_uppercase[n]>>

ExpectedNumbers ==
    LET ks == SelectSeq([k \in 1..Len(walked) |-> k],
                        LAMBDA k : walked[k] = "section")
    IN  [m \in 1..Len(ks) |-> ExpectedNumber(ks[m])]

\* C8: the section records are numbered in document order, 1, 2, ... before
\* the appendix marker and A, B, ... from the appendix marker on, the count
\* starting again at the marker.
C8_SectionNumbering == SectionNumbers = ExpectedNumbers

\* two body sections, the appendix marker, one appendix section: 1, 2, A
C8_Witness ==
    /\ walked = <<"section", "section", "appendix", "section">>
    /\ SectionNumbers = << <<"1">>, <<"2">>, <<"A">> >>

----------------------------------------------------------------------------
(* Properties of process_equation *)

EnvPairs ==
    { <<"\\begin{cases}", "\\end{cases}">>,
      <<"\\begin{rcases}", "\\end{rcases}">>,
      <<"\\begin{aligned}", "\\end{aligned}">>,
      <<"\\begin{align*}", "\\end{align*}">> }

\* some environment of the four is begun and ended unequally often in acc
OpenEnvironment(acc) ==
    \E p \in EnvPairs :
        Cardinality({k \in 1..Len(acc) : acc[k] = p[1]})
            # Cardinality({k \in 1..Len(acc) : acc[k] = p[2]})

\* the tokens of rest up to its first hard line break
RECURSIVE FirstLine(_)
FirstLine(rest) ==
    IF rest = <<>> \/ Head(rest) = LineBreak THEN <<>>
    ELSE <<Head(rest)>> \o FirstLine(Tail(rest))

\* the tokens of rest after its first hard line break
RECURSIVE AfterFirstLine(_)
AfterFirstLine(rest) ==
    IF rest = <<>> THEN <<>>
    ELSE IF Head(rest) = LineBreak THEN Tail(rest)
    ELSE AfterFirstLine(Tail(rest))

HasNoNumber(line) == \E k \in 1..Len(line) : line[k] = NoNumber

\* The texts the claim describes, read off the raw text token by token: a
\* hard line break ends the current formula unless an environment is open
\* in the text gathered so far or the line after the break holds \nonumber.
RECURSIVE ClaimLines(_, _)
ClaimLines(rest, acc) ==
    IF rest = <<>> THEN <<acc>>
    ELSE IF Head(rest) # LineBreak
    THEN ClaimLines(Tail(rest), Append(acc, Head(rest)))
    ELSE IF OpenEnvironment(acc) \/ HasNoNumber(FirstLine(Tail(rest)))
    THEN ClaimLines(Tail(rest), acc)
    ELSE <<acc>> \o ClaimLines(Tail(rest), <<>>)

\* the same, a first line holding \nonumber being left out
AmendedLines(raw) ==
    IF HasNoNumber(FirstLine(raw)) THEN ClaimLines(AfterFirstLine(raw), <<>>)
    ELSE ClaimLines(raw, <<>>)

ReturnedTexts == [k \in 1..Len(frame.eqs) |-> frame.eqs[k].tex]

SplitReturned == IsSplit(eq) /\ frame.st = "return"

C6_LabelFromRawText ==
    (/\ frame.st \notin {"idle", "loop"}
     /\ ~IsSplit(eq)
     /\ eq.labels = <<>>
     /\ \E k \in 1..Len(eq.raw) : eq.raw[k] = LabelCmd)
        => /\ frame.st \in {"return", "done"}
           /\ Len(frame.eqs) = 1
           /\ frame.eqs[1].label = <<"foo">>

\* C10: on an align node with a hard line break the loop never reads a
\* fragment past the last one.
C10_NoReadPastLastFragment ==
    IsSplit(eq) => frame.st \notin {"IndexError", "raised"}

----------------------------------------------------------------------------
(* Properties of run *)

\* the tag loop of lines 347-359 is over, by its end or by an exception
TagsClassified == rpc # "start"

\* C2: a tag whose version has no database is put in unrecognized, and the
\* lookup does not raise.
C2_UnindexedVersionUnrecognized ==
    \A k \in 1..Len(tags) :
        (TagsClassified /\ tags[k].version \notin DOMAIN db)
            => /\ rerr # "KeyError"
               /\ \E j \in 1..Len(unrecognized) : unrecognized[j] = tags[k]

\* the loop of lines 364-367 has run
MissingComputed ==
    \/ rpc \in {"up_to_date", "reporting", "done"}
    \/ rpc = "raised" /\ rerr \in {"ZeroDivisionError",
                                   "ValueError: invalid literal for int()"}

Referenced(f) == \E k \in 1..Len(tags) : tags[k].index = f.index

RenamedFoo ==
    /\ OldVersion \in DOMAIN db
    /\ tags = <<Tag(1, OldVersion, <<"3", ".", "1">>)>>
    /\ Len(db[OldVersion]) = 1
    /\ db[OldVersion][1].label = <<"foo">>
    /\ db[OldVersion][1].index = <<"3", ".", "1">>
    /\ Len(db[latest]) = 1
    /\ db[latest][1].label = <<"foo">>
    /\ db[latest][1].index = <<"3", ".", "2">>

RunOver == rpc \in {"up_to_date", "done", "raised"}

\* C4: in that case the report of the outdated tag holds the rename hint
\* from 3.1 to 3.2, and the content flag exactly when the two texts differ.
C4_RenameHint ==
    (RenamedFoo /\ RunOver)
        => /\ rpc = "done"
           /\ Len(report) = 1
           /\ report[1].tag = tags[1]
           /\ report[1].becomes = <<"3", ".", "2">>
           /\ report[1].content_not_equal
                 = (db[latest][1].tex # db[OldVersion][1].tex)

----------------------------------------------------------------------------
(* Properties of download_releases *)

\* C9: no step of download_releases rewrites or removes an artifact that
\* exists: a release whose artifact exists is skipped, and a failure while
\* building a release leaves every artifact that existed as it was.
C9_ArtifactsKept ==
    [][\A t \in ReleaseTags :
          artifacts[t] # NoFile => artifacts'[t] = artifacts[t]]_vars

\* a run that skipped its first release, built its second and failed on its
\* third: the first two artifacts are there
C9_Witness ==
    /\ dpc = "raised"
    /\ rel_i = 3
    /\ printed[1][1] = "already present, skipping"
    /\ printed[2][1] = "Downloading release"
    /\ artifacts[releases[1]] # NoFile
    /\ artifacts[releases[2]] # NoFile

====
